---- MODULE Spec2Model ----
(***************************************************************************)
(* State machine of the status-sync part of EmailViewer.js: the React      *)
(* state of the component, the WebSocket held in the ws ref, the HTTP      *)
(* requests in flight and the handlers that run when a response or a       *)
(* socket event arrives.  Every handler runs to completion (JavaScript is  *)
(* single-threaded), so one handler is one action.  The content functions  *)
(* of the component (decodeContent, extractEmailContent, getEmailHeaders,  *)
(* extractVerifyUrl) are pure: each has a specification of its own         *)
(* (DecodeSpec, ContentSpec, HeadersSpec, VerifyUrlSpec) that draws an     *)
(* argument and applies the function to it.                                *)
(***************************************************************************)
EXTENDS Naturals, Integers, Sequences, FiniteSets, TLC

(* ------------------------------ bounds --------------------------------- *)
\* requests (latest fetch, detail fetch, verification trigger) issued in a run
MaxRequests == 3
\* characters of an encoded body handed to decodeContent on its own
MaxEncodedLen == 4
\* nested findParts calls the engine's call stack holds (scaled down)
StackLimit == 3
\* pieces a searched text is put together from
MaxTokens == 3
\* entries of a header list
MaxHeaders == 3

(* ------------------------------ values --------------------------------- *)
\* message ids and status tokens the server may send (opaque strings)
MessageIds == {"m1", "m2"}
Statuses == {"confirmed", "failed"}
\* the value of a property that an object does not have
Undefined == "<undefined>"
\* what is typed into the address field, in this order, as sequences of
\* characters (the field starts empty)
GmailInputs == << <<"a", " ">>, <<"b">> >>
\* useState(null) for emailData
Null == [id |-> "<null>", verificationStatus |-> "<null>"]

NoEmailsFound == "No emails found for this Gmail ID"
FailedLatestAsNotFound == "No emails found for this Gmail ID"
FailedLatest == "Failed to fetch latest emails"
FailedDetails == "Failed to fetch email details"
FailedVerify == "Failed to trigger verification"

(* String.prototype.trim on a sequence of characters *)
RECURSIVE TrimStart(_)
TrimStart(s) ==
    IF s # <<>> /\ Head(s) = " " THEN TrimStart(Tail(s)) ELSE s

RECURSIVE TrimEnd(_)
TrimEnd(s) ==
    IF s # <<>> /\ s[Len(s)] = " " THEN TrimEnd(SubSeq(s, 1, Len(s) - 1)) ELSE s

Trim(s) == TrimEnd(TrimStart(s))

(* the key of a computed property name: [x] with x undefined is "undefined" *)
PropertyKey(v) == IF v = Undefined THEN "undefined" ELSE v

(* { [key]: value } in place of { ...prev, [key]: value } *)
SpreadSetWithoutSpread(prev, key, value) ==
    [k \in {PropertyKey(key)} |-> value]

(* { ...prev, [key]: value } *)
SpreadSet(prev, key, value) ==
    [k \in (DOMAIN prev) \cup {PropertyKey(key)} |->
        IF k = PropertyKey(key) THEN value ELSE prev[k]]

(* ------------------------------ state ---------------------------------- *)
VARIABLES
    mounted,             \* the component is mounted
    gmailId,             \* useState('')
    latestEmails,        \* useState([]), the ids of the listed messages
    emailData,           \* useState(null)
    loading,             \* useState(false)
    error,               \* useState('')
    verificationStatus,  \* useState({})
    ws,                  \* useRef(null): current = number of the socket held,
                         \* 0 = null; sockets = the sockets made, by number
    pending,             \* HTTP requests in flight
    nReq,                \* requests issued so far
    seeded,              \* history: the ids a fetch response has arrived for
    answered,            \* history: the requests answered, in arrival order
    input,               \* the argument of the content function under call
    output               \* what that call returned, once it has

vars == <<mounted, gmailId, latestEmails, emailData, loading, error,
          verificationStatus, ws, pending, nReq, seeded, answered,
          input, output>>

component == <<mounted, gmailId, latestEmails, emailData, loading, error,
               verificationStatus, ws, pending, nReq, seeded, answered>>

(* the content functions (decodeContent, extractEmailContent,             *)
(* getEmailHeaders, extractVerifyUrl) read their argument only: they are   *)
(* specified on their own below, and no handler touches a call of them     *)
call == <<input, output>>

\* an optional JavaScript value: undefined/null, or the string s
None == [defined |-> FALSE, s |-> <<>>]
Some(s) == [defined |-> TRUE, s |-> s]

\* no call has returned yet
NotReturned == [done |-> FALSE, threw |-> FALSE]
\* the call returned value v, or threw
Returned(v) == [done |-> TRUE, threw |-> FALSE, value |-> v]
Threw == [done |-> TRUE, threw |-> TRUE]

ui == <<gmailId, latestEmails, emailData, loading, error, verificationStatus>>

(* the parsed inbound payloads: text that is no JSON, the JSON null, and    *)
(* objects: well-formed updates, an update without messageId, an update    *)
(* without status, and an object with another type                         *)
Event(shape, type, messageId, status) ==
    [shape |-> shape, type |-> type, messageId |-> messageId, status |-> status]

WellFormedEvents ==
    {Event("object", "verification_update", m, s) : m \in MessageIds, s \in Statuses}

MalformedEvents ==
    {Event("unparseable", Undefined, Undefined, Undefined),
     Event("null", Undefined, Undefined, Undefined),
     Event("object", "other", "m1", "confirmed"),
     Event("object", "verification_update", Undefined, "confirmed"),
     Event("object", "verification_update", "m1", Undefined)}

InboundEvents == WellFormedEvents \cup MalformedEvents

(* the component as constructed: the useState and useRef initial values *)
Constructed ==
    /\ mounted = TRUE
    /\ gmailId = <<>>
    /\ latestEmails = <<>>
    /\ emailData = Null
    /\ loading = FALSE
    /\ error = ""
    /\ verificationStatus = <<>>
    /\ ws = [current |-> 0, sockets |-> <<>>]
    /\ pending = {}
    /\ nReq = 0
    /\ seeded = {}
    /\ answered = <<>>

Init ==
    /\ Constructed
    /\ input = None
    /\ output = NotReturned

(* ---------------------------- WebSocket -------------------------------- *)
Live(s) == s.readyState \in {"Connecting", "Open"}

(* WebSocket.close(): a connecting or open socket starts closing *)
Close(s) == IF Live(s) THEN [s EXCEPT !.readyState = "Closing"] ELSE s

(* a closed socket that the ref does not hold fires no further event and  *)
(* is reachable from no code: it is dropped                                *)
Collect(w) ==
    [w EXCEPT !.sockets =
        [n \in {k \in DOMAIN w.sockets :
                    k = w.current \/ w.sockets[k].readyState # "Closed"}
            |-> w.sockets[n]]]

(* new WebSocket(url), assigned to ws.current: it is connecting *)
NewSocket(w, email) ==
    [current |-> w.current + 1,
     sockets |-> [n \in (DOMAIN w.sockets) \cup {w.current + 1} |->
                     IF n = w.current + 1
                     THEN [readyState |-> "Connecting", email |-> email,
                           sent |-> <<>>]
                     ELSE w.sockets[n]]]

(* connectWebSocket without lines 33-35 *)
connectWebSocketWithoutClose(w, email) == NewSocket(w, email)

(* connectWebSocket(email), lines 32-38 and the handlers' closure *)
connectWebSocket(w, email) ==
    Collect(NewSocket(IF w.current # 0
                      THEN [w EXCEPT !.sockets[w.current] = Close(@)]
                      ELSE w,
                      email))

(* ws.current.send(data): queued on an open socket, thrown or dropped otherwise *)
Send(w, data) ==
    IF w.current # 0 /\ w.sockets[w.current].readyState = "Open"
    THEN [w EXCEPT !.sockets[w.current].sent = Append(@, data)]
    ELSE w

(* an onopen that subscribes twice *)
onopenSendsTwice(w, c) ==
    Send(Send(w, [type |-> "subscribe", email |-> w.sockets[c].email]),
         [type |-> "subscribe", email |-> w.sockets[c].email])

(* ws.current.onopen of socket c *)
onopen(w, c) ==
    Send(w, [type |-> "subscribe", email |-> w.sockets[c].email])

(* ws.current.onerror and ws.current.onclose of socket c: they only log *)
onerror(w, c) == w

(* an onclose that reconnects *)
oncloseReconnects(w, c) == connectWebSocket(w, w.sockets[c].email)

onclose(w, c) == w

(* an onmessage that keeps the first status of a message id *)
onmessageKeepsFirst(prev, e) ==
    IF e.shape # "object"
    THEN [threw |-> TRUE, status |-> prev]
    ELSE IF e.type = "verification_update"
              /\ PropertyKey(e.messageId) \notin DOMAIN prev
         THEN [threw |-> FALSE, status |-> SpreadSet(prev, e.messageId, e.status)]
         ELSE [threw |-> FALSE, status |-> prev]

(* an onmessage that records only the ids the mapping already has *)
onmessageIgnoresUnknown(prev, e) ==
    IF e.shape # "object"
    THEN [threw |-> TRUE, status |-> prev]
    ELSE IF e.type = "verification_update"
              /\ PropertyKey(e.messageId) \in DOMAIN prev
         THEN [threw |-> FALSE, status |-> SpreadSet(prev, e.messageId, e.status)]
         ELSE [threw |-> FALSE, status |-> prev]

(* ws.current.onmessage, lines 49-57: the next mapping and whether the     *)
(* handler threw (JSON.parse of bad text, or .type of null)                *)
onmessage(prev, e) ==
    IF e.shape # "object"
    THEN [threw |-> TRUE, status |-> prev]
    ELSE IF e.type = "verification_update"
         THEN [threw |-> FALSE, status |-> SpreadSet(prev, e.messageId, e.status)]
         ELSE [threw |-> FALSE, status |-> prev]

SocketIds == DOMAIN ws.sockets

(* the connection is established: readyState becomes OPEN, open fires *)
SocketOpens(c) ==
    /\ ws.sockets[c].readyState = "Connecting"
    /\ ws' = onopen([ws EXCEPT !.sockets[c].readyState = "Open"], c)
    /\ UNCHANGED <<mounted, ui, pending, nReq, seeded, answered>>
    /\ UNCHANGED call

(* a message arrives on an open socket; setState of an unmounted component *)
(* does nothing                                                            *)
SocketMessage(c, e) ==
    /\ ws.sockets[c].readyState = "Open"
    /\ verificationStatus' = IF mounted
                              THEN onmessage(verificationStatus, e).status
                              ELSE verificationStatus
    /\ UNCHANGED <<mounted, gmailId, latestEmails, emailData, loading, error,
                   ws, pending, nReq, seeded, answered>>
    /\ UNCHANGED call

(* transport failure: error fires, then close, readyState is CLOSED *)
SocketFails(c) ==
    /\ Live(ws.sockets[c])
    /\ ws' = Collect(onclose(onerror(
                 [ws EXCEPT !.sockets[c].readyState = "Closed"], c), c))
    /\ UNCHANGED <<mounted, ui, pending, nReq, seeded, answered>>
    /\ UNCHANGED call

(* the closing handshake ends, or the server closes an open socket: close fires *)
SocketCloses(c) ==
    /\ ws.sockets[c].readyState \in {"Open", "Closing"}
    /\ ws' = Collect(onclose([ws EXCEPT !.sockets[c].readyState = "Closed"], c))
    /\ UNCHANGED <<mounted, ui, pending, nReq, seeded, answered>>
    /\ UNCHANGED call

(* the component unmounts: the effect cleanup of lines 23-30 runs and the   *)
(* component's state is discarded with it                                  *)
Unmount ==
    /\ mounted
    /\ mounted' = FALSE
    /\ ws' = IF ws.current # 0
             THEN [ws EXCEPT !.sockets[ws.current] = Close(@)]
             ELSE ws
    /\ gmailId' = <<>>
    /\ latestEmails' = <<>>
    /\ emailData' = Null
    /\ loading' = FALSE
    /\ error' = ""
    /\ verificationStatus' = <<>>
    /\ seeded' = {}
    /\ UNCHANGED <<pending, nReq, answered>>
    /\ UNCHANGED call

(* ------------------------------ requests ------------------------------- *)
Request(kind, email, messageId) ==
    [seq |-> nReq + 1, kind |-> kind, email |-> email, messageId |-> messageId]

(* a request that cancels the ones in flight *)
IssueCancelsOlder(inflight, r) == {r}

(* axios.post / axios.get: one more request in flight *)
Issue(inflight, r) == inflight \cup {r}

Messages == [id : MessageIds, verificationStatus : Statuses]

(* onChange of the address field, disabled while loading *)
SetGmailId(v) ==
    /\ mounted
    /\ ~loading
    /\ \/ gmailId = <<>> /\ v = GmailInputs[1]
       \/ \E i \in 1 .. Len(GmailInputs) - 1 :
              gmailId = GmailInputs[i] /\ v = GmailInputs[i + 1]
    /\ gmailId' = v
    /\ UNCHANGED <<mounted, latestEmails, emailData, loading, error,
                   verificationStatus, ws, pending, nReq, seeded, answered>>
    /\ UNCHANGED call

(* fetchLatestEmails up to the await, lines 138-152; the button is         *)
(* disabled while loading or while the trimmed address is empty            *)
FetchLatestEmails ==
    /\ mounted
    /\ ~loading
    /\ Trim(gmailId) # <<>>
    /\ nReq < MaxRequests
    /\ loading' = TRUE
    /\ error' = ""
    /\ latestEmails' = <<>>
    /\ emailData' = Null
    /\ pending' = Issue(pending, Request("latest", Trim(gmailId), Undefined))
    /\ nReq' = nReq + 1
    /\ UNCHANGED <<mounted, gmailId, verificationStatus, ws, seeded, answered>>
    /\ UNCHANGED call

(* lines 154-163 and 170-172: the response carries a message *)
FetchLatestData(r, data) ==
    /\ r \in pending
    /\ r.kind = "latest"
    /\ pending' = pending \ {r}
    /\ answered' = Append(answered, r.seq)
    /\ seeded' = IF mounted THEN seeded \cup {data.id} ELSE seeded
    /\ IF mounted
       THEN /\ emailData' = data
            /\ latestEmails' = <<data.id>>
            /\ verificationStatus' =
                   SpreadSet(verificationStatus, data.id, data.verificationStatus)
            /\ loading' = FALSE
            /\ UNCHANGED <<gmailId, error>>
       ELSE UNCHANGED ui
    /\ ws' = connectWebSocket(ws, r.email)
    /\ UNCHANGED <<mounted, nReq>>
    /\ UNCHANGED call

(* lines 164-166 and 170-172: the response carries no data *)
FetchLatestEmpty(r) ==
    /\ r \in pending
    /\ r.kind = "latest"
    /\ pending' = pending \ {r}
    /\ answered' = Append(answered, r.seq)
    /\ UNCHANGED seeded
    /\ IF mounted
       THEN /\ error' = NoEmailsFound
            /\ loading' = FALSE
            /\ UNCHANGED <<gmailId, latestEmails, emailData, verificationStatus>>
       ELSE UNCHANGED ui
    /\ UNCHANGED <<mounted, ws, nReq>>
    /\ UNCHANGED call

(* a catch block that also drops the subscription *)
FetchLatestRejectedDisconnects(r) ==
    /\ r \in pending
    /\ r.kind = "latest"
    /\ pending' = pending \ {r}
    /\ answered' = Append(answered, r.seq)
    /\ UNCHANGED seeded
    /\ IF mounted
       THEN /\ error' = FailedLatest
            /\ loading' = FALSE
            /\ UNCHANGED <<gmailId, latestEmails, emailData, verificationStatus>>
       ELSE UNCHANGED ui
    /\ ws' = IF ws.current # 0
             THEN [ws EXCEPT !.sockets[ws.current] = Close(@)]
             ELSE ws
    /\ UNCHANGED <<mounted, nReq>>
    /\ UNCHANGED call

(* lines 167-172: the request is rejected *)
FetchLatestRejected(r) ==
    /\ r \in pending
    /\ r.kind = "latest"
    /\ pending' = pending \ {r}
    /\ answered' = Append(answered, r.seq)
    /\ UNCHANGED seeded
    /\ IF mounted
       THEN /\ error' = FailedLatest
            /\ loading' = FALSE
            /\ UNCHANGED <<gmailId, latestEmails, emailData, verificationStatus>>
       ELSE UNCHANGED ui
    /\ UNCHANGED <<mounted, ws, nReq>>
    /\ UNCHANGED call

(* fetchEmailDetails up to the await, lines 176-183: a click on a listed id *)
FetchEmailDetails(messageId) ==
    /\ mounted
    /\ \E i \in 1 .. Len(latestEmails) : latestEmails[i] = messageId
    /\ nReq < MaxRequests
    /\ loading' = TRUE
    /\ error' = ""
    /\ pending' = Issue(pending, Request("details", <<>>, messageId))
    /\ nReq' = nReq + 1
    /\ UNCHANGED <<mounted, gmailId, latestEmails, emailData, verificationStatus,
                   ws, seeded, answered>>
    /\ UNCHANGED call

(* lines 184-188 and 192-194 *)
FetchDetailsData(r, data) ==
    /\ r \in pending
    /\ r.kind = "details"
    /\ data.id = r.messageId
    /\ pending' = pending \ {r}
    /\ answered' = Append(answered, r.seq)
    /\ seeded' = IF mounted THEN seeded \cup {data.id} ELSE seeded
    /\ IF mounted
       THEN /\ emailData' = data
            /\ verificationStatus' =
                   SpreadSet(verificationStatus, data.id, data.verificationStatus)
            /\ loading' = FALSE
            /\ UNCHANGED <<gmailId, latestEmails, error>>
       ELSE UNCHANGED ui
    /\ UNCHANGED <<mounted, ws, nReq>>
    /\ UNCHANGED call

(* lines 189-194 *)
FetchDetailsRejected(r) ==
    /\ r \in pending
    /\ r.kind = "details"
    /\ pending' = pending \ {r}
    /\ answered' = Append(answered, r.seq)
    /\ UNCHANGED seeded
    /\ IF mounted
       THEN /\ error' = FailedDetails
            /\ loading' = FALSE
            /\ UNCHANGED <<gmailId, latestEmails, emailData, verificationStatus>>
       ELSE UNCHANGED ui
    /\ UNCHANGED <<mounted, ws, nReq>>
    /\ UNCHANGED call

(* handleVerifyClick up to the await, lines 198-206 *)
HandleVerifyClick ==
    /\ mounted
    /\ emailData # Null
    /\ nReq < MaxRequests
    /\ pending' = Issue(pending, Request("verify", Trim(gmailId), emailData.id))
    /\ nReq' = nReq + 1
    /\ UNCHANGED <<mounted, ui, ws, seeded, answered>>
    /\ UNCHANGED call

(* the trigger request resolves: nothing follows the await *)
VerifyResolved(r) ==
    /\ r \in pending
    /\ r.kind = "verify"
    /\ pending' = pending \ {r}
    /\ answered' = Append(answered, r.seq)
    /\ UNCHANGED seeded
    /\ UNCHANGED <<mounted, ui, ws, nReq>>
    /\ UNCHANGED call

(* lines 207-210 *)
VerifyRejected(r) ==
    /\ r \in pending
    /\ r.kind = "verify"
    /\ pending' = pending \ {r}
    /\ answered' = Append(answered, r.seq)
    /\ UNCHANGED seeded
    /\ IF mounted
       THEN /\ error' = FailedVerify
            /\ UNCHANGED <<gmailId, latestEmails, emailData, loading,
                           verificationStatus>>
       ELSE UNCHANGED ui
    /\ UNCHANGED <<mounted, ws, nReq>>
    /\ UNCHANGED call

Next ==
    \/ \E v \in {GmailInputs[i] : i \in 1 .. Len(GmailInputs)} : SetGmailId(v)
    \/ FetchLatestEmails
    \/ \E r \in pending, d \in Messages : FetchLatestData(r, d)
    \/ \E r \in pending : FetchLatestEmpty(r)
    \/ \E r \in pending : FetchLatestRejected(r)
    \/ \E m \in MessageIds : FetchEmailDetails(m)
    \/ \E r \in pending, d \in Messages : FetchDetailsData(r, d)
    \/ \E r \in pending : FetchDetailsRejected(r)
    \/ HandleVerifyClick
    \/ \E r \in pending : VerifyResolved(r)
    \/ \E r \in pending : VerifyRejected(r)
    \/ \E c \in SocketIds : SocketOpens(c)
    \/ \E c \in SocketIds, e \in InboundEvents : SocketMessage(c, e)
    \/ \E c \in SocketIds : SocketFails(c)
    \/ \E c \in SocketIds : SocketCloses(c)
    \/ Unmount

Spec == Init /\ [][Next]_vars

(* ------------------------- content functions --------------------------- *)
(* Strings are sequences of character codes.                               *)

(* the sequences over chars of length at most n *)
StringsUpTo(chars, n) == UNION {[1 .. k -> chars] : k \in 0 .. n}

(* s.replace(/c/g, d) for single characters c and d *)
ReplaceAll(s, c, d) == [i \in 1 .. Len(s) |-> IF s[i] = c THEN d ELSE s[i]]

(* the characters atob strips: TAB, LF, FF, CR, SPACE *)
AsciiWhitespace == {9, 10, 12, 13, 32}

NotWhitespace(c) == c \notin AsciiWhitespace

(* the value of a character in the base64 alphabet A-Z a-z 0-9 + /, or -1 *)
Base64Index(c) ==
    IF c \in 65 .. 90 THEN c - 65
    ELSE IF c \in 97 .. 122 THEN c - 71
    ELSE IF c \in 48 .. 57 THEN c + 4
    ELSE IF c = 43 THEN 62
    ELSE IF c = 47 THEN 63
    ELSE -1

(* the bytes of the base64 characters u: 8 bits at a time, the bits left   *)
(* over at the end are discarded                                           *)
Base64Bytes(u) ==
    [k \in 1 .. ((Len(u) * 6) \div 8) |->
        LET i == ((8 * (k - 1)) \div 6) + 1
            o == (8 * (k - 1)) % 6
            a == Base64Index(u[i])
            b == Base64Index(u[i + 1])
        IN  IF o = 0 THEN a * 4 + (b \div 16)
            ELSE IF o = 2 THEN (a % 16) * 16 + (b \div 4)
            ELSE (a % 4) * 64 + b]

(* window.atob: whitespace is stripped, one or two "=" are dropped from    *)
(* the end of a string whose length is a multiple of 4, and the call       *)
(* throws when the rest has length 1 modulo 4 or a character outside the   *)
(* alphabet                                                                *)
atob(data) ==
    LET stripped == SelectSeq(data, NotWhitespace)
        n == Len(stripped)
        unpadded ==
            IF n > 0 /\ n % 4 = 0 /\ stripped[n] = 61
            THEN IF stripped[n - 1] = 61
                 THEN SubSeq(stripped, 1, n - 2)
                 ELSE SubSeq(stripped, 1, n - 1)
            ELSE stripped
    IN  IF \/ Len(unpadded) % 4 = 1
           \/ \E i \in 1 .. Len(unpadded) : Base64Index(unpadded[i]) = -1
        THEN [threw |-> TRUE, s |-> <<>>]
        ELSE [threw |-> FALSE, s |-> Base64Bytes(unpadded)]

(* the value of a hexadecimal digit, or -1 *)
HexValue(c) ==
    IF c \in 48 .. 57 THEN c - 48
    ELSE IF c \in 65 .. 70 THEN c - 55
    ELSE IF c \in 97 .. 102 THEN c - 87
    ELSE -1

(* quoted-printable, decode, first replace: /[\t\x20]$/gm, a tab or space  *)
(* right before a line break or the end is deleted                         *)
StripTrailingWhitespace(s) ==
    LET keep == {i \in 1 .. Len(s) :
                    ~(/\ s[i] \in {9, 32}
                      /\ (i = Len(s) \/ s[i + 1] \in {10, 13}))}
        RECURSIVE Kept(_)
        Kept(i) == IF i > Len(s) THEN <<>>
                   ELSE IF i \in keep THEN <<s[i]>> \o Kept(i + 1)
                   ELSE Kept(i + 1)
    IN  Kept(1)

(* second replace: /=(?:\r\n?|\n|$)/g, soft line breaks are deleted *)
RECURSIVE RemoveSoftBreaks(_)
RemoveSoftBreaks(s) ==
    IF s = <<>> THEN <<>>
    ELSE IF Head(s) # 61 THEN <<Head(s)>> \o RemoveSoftBreaks(Tail(s))
    ELSE IF Len(s) = 1 THEN <<>>
    ELSE IF s[2] = 13
         THEN IF Len(s) >= 3 /\ s[3] = 10
              THEN RemoveSoftBreaks(SubSeq(s, 4, Len(s)))
              ELSE RemoveSoftBreaks(SubSeq(s, 3, Len(s)))
    ELSE IF s[2] = 10 THEN RemoveSoftBreaks(SubSeq(s, 3, Len(s)))
    ELSE <<61>> \o RemoveSoftBreaks(Tail(s))

(* third replace: /=([a-fA-F0-9]{2})/g, =XX becomes the character XX *)
RECURSIVE DecodeEscapes(_)
DecodeEscapes(s) ==
    IF s = <<>> THEN <<>>
    ELSE IF /\ Head(s) = 61
            /\ Len(s) >= 3
            /\ HexValue(s[2]) # -1
            /\ HexValue(s[3]) # -1
         THEN <<HexValue(s[2]) * 16 + HexValue(s[3])>>
                  \o DecodeEscapes(SubSeq(s, 4, Len(s)))
         ELSE <<Head(s)>> \o DecodeEscapes(Tail(s))

(* quotedPrintable.decode of the quoted-printable package *)
quotedPrintableDecode(s) ==
    DecodeEscapes(RemoveSoftBreaks(StripTrailingWhitespace(s)))

(* encoded.replace(/-/g, '+').replace(/_/g, '/') *)
UrlSafeToBase64(s) == ReplaceAll(ReplaceAll(s, 45, 43), 95, 47)

(* decodeContent without the try/catch *)
decodeContentWithoutCatch(encoded) ==
    IF ~encoded.defined \/ encoded.s = <<>>
    THEN [threw |-> FALSE, s |-> <<>>]
    ELSE LET decodedBase64 == atob(UrlSafeToBase64(encoded.s))
         IN  IF decodedBase64.threw
             THEN [threw |-> TRUE, s |-> <<>>]
             ELSE [threw |-> FALSE, s |-> quotedPrintableDecode(decodedBase64.s)]

(* a decodeContent whose catch returns '' *)
decodeContentCatchEmpty(encoded) ==
    IF ~encoded.defined \/ encoded.s = <<>>
    THEN [threw |-> FALSE, s |-> <<>>]
    ELSE LET decodedBase64 == atob(UrlSafeToBase64(encoded.s))
         IN  IF decodedBase64.threw
             THEN [threw |-> FALSE, s |-> <<>>]
             ELSE [threw |-> FALSE, s |-> quotedPrintableDecode(decodedBase64.s)]

(* decodeContent, lines 69-82 *)
decodeContent(encoded) ==
    IF ~encoded.defined \/ encoded.s = <<>>
    THEN [threw |-> FALSE, s |-> <<>>]
    ELSE LET decodedBase64 == atob(UrlSafeToBase64(encoded.s))
         IN  IF decodedBase64.threw
             THEN [threw |-> FALSE, s |-> encoded.s]
             ELSE [threw |-> FALSE, s |-> quotedPrintableDecode(decodedBase64.s)]

(* a call of decodeContent on its own *)
\* the characters Q P T x = - _ ! and space
EncodedChars == {81, 80, 84, 120, 61, 45, 95, 33, 32}

EncodedInputs ==
    {None} \cup {Some(s) : s \in StringsUpTo(EncodedChars, MaxEncodedLen)}

DecodeInit ==
    /\ Constructed
    /\ input \in EncodedInputs
    /\ output = NotReturned

DecodeContent ==
    /\ ~output.done
    /\ output' = LET r == decodeContent(input)
                 IN  IF r.threw THEN Threw ELSE Returned(r.s)
    /\ UNCHANGED <<input, component>>

DecodeNext == DecodeContent

DecodeSpec == DecodeInit /\ [][DecodeNext]_vars

(* ----------------------- extractEmailContent --------------------------- *)
(* A payload is a table of parts, the root is part 1; a part names its     *)
(* child parts by number, 0 being a null entry of the parts array, so a    *)
(* payload may be nested to any depth and a part may be reached from its   *)
(* own parts.                                                              *)
MimeTypes == {"text/plain", "text/html", "multipart/alternative"}

\* body.data of the parts: "QQ" decodes to "A", "Qg" to "B"
BodyData == {None, Some(<<81, 81>>), Some(<<81, 103>>)}

Part(mimeType, data, parts) ==
    [mimeType |-> mimeType, data |-> data, parts |-> parts]

NoPayload == [defined |-> FALSE, nodes |-> <<>>]
Payload(nodes) == [defined |-> TRUE, nodes |-> nodes]

(* part.body?.data is truthy *)
HasData(part) == part.data.defined /\ part.data.s # <<>>

(* findParts, lines 91-100, and part.parts.forEach(findParts): acc holds   *)
(* the closure's text and html; a call nested deeper than the call stack   *)
(* throws RangeError, which nothing catches                                *)
RECURSIVE findParts(_, _, _, _)
RECURSIVE forEachPart(_, _, _, _, _)
findParts(nodes, n, acc, depth) ==
    IF acc.threw THEN acc
    ELSE IF depth > StackLimit THEN [acc EXCEPT !.threw = TRUE]
    ELSE IF n = 0 THEN acc
    ELSE LET part == nodes[n]
         IN  IF part.mimeType = "text/plain" /\ HasData(part)
             THEN [acc EXCEPT !.text = decodeContent(part.data).s]
             ELSE IF part.mimeType = "text/html" /\ HasData(part)
             THEN [acc EXCEPT !.html = decodeContent(part.data).s]
             ELSE IF Len(part.parts) > 0
             THEN forEachPart(nodes, part.parts, 1, acc, depth + 1)
             ELSE acc

forEachPart(nodes, parts, i, acc, depth) ==
    IF i > Len(parts) THEN acc
    ELSE forEachPart(nodes, parts, i + 1,
                     findParts(nodes, parts[i], acc, depth), depth)

(* extractEmailContent, lines 85-105 *)
extractEmailContent(payload) ==
    IF ~payload.defined
    THEN [threw |-> FALSE, textContent |-> <<>>, htmlContent |-> <<>>]
    ELSE LET r == findParts(payload.nodes, 1,
                            [threw |-> FALSE, text |-> <<>>, html |-> <<>>], 1)
         IN  [threw |-> r.threw, textContent |-> r.text, htmlContent |-> r.html]

(* the shapes of the payloads: a root with two children and a null entry,  *)
(* a nested tree, chains of three and four parts, and a cycle              *)
Shapes ==
    {<< <<2, 0, 3>>, <<>>, <<>>, <<>> >>,
     << <<2, 4>>, <<3>>, <<>>, <<>> >>,
     << <<2>>, <<3>>, <<>>, <<>> >>,
     << <<2>>, <<3>>, <<4>>, <<>> >>,
     << <<2>>, <<1>>, <<>>, <<>> >>}

ContentInputs ==
    {NoPayload} \cup
    {Payload([n \in 1 .. 4 |->
                 IF n = 4 THEN Part("text/plain", d4, shape[n])
                 ELSE Part(m[n], d[n], shape[n])]) :
        shape \in Shapes, m \in [1 .. 3 -> MimeTypes],
        d \in [1 .. 3 -> BodyData], d4 \in {None, Some(<<81, 103>>)}}

ContentInit ==
    /\ Constructed
    /\ input \in ContentInputs
    /\ output = NotReturned

ExtractEmailContent ==
    /\ ~output.done
    /\ output' = LET r == extractEmailContent(input)
                 IN  IF r.threw THEN Threw
                     ELSE Returned([textContent |-> r.textContent,
                                    htmlContent |-> r.htmlContent])
    /\ UNCHANGED <<input, component>>

ContentNext == ExtractEmailContent

ContentSpec == ContentInit /\ [][ContentNext]_vars

(* -------------------------- extractVerifyUrl --------------------------- *)
(* /https?:\/\/[^\s<>"]+(verify|confirm|activate)[^\s<>"]*/gi              *)

Keywords ==
    {<<118, 101, 114, 105, 102, 121>>,                \* verify
     <<99, 111, 110, 102, 105, 114, 109>>,           \* confirm
     <<97, 99, 116, 105, 118, 97, 116, 101>>}      \* activate

(* canonicalisation of the i flag, for the ASCII letters *)
ToLowerCase(c) == IF c \in 65 .. 90 THEN c + 32 ELSE c

(* word stands in text at position i, letter case ignored *)
StandsAt(text, i, word) ==
    /\ i >= 1
    /\ i + Len(word) - 1 <= Len(text)
    /\ \A k \in 1 .. Len(word) : ToLowerCase(text[i + k - 1]) = ToLowerCase(word[k])

(* [^\s<>"] *)
UrlChar(c) == c \notin {9, 10, 11, 12, 13, 32, 160, 60, 62, 34}

(* https?:\/\/ at position i: the position after it, or 0 *)
SchemeEnd(text, i) ==
    IF StandsAt(text, i, <<104, 116, 116, 112, 115, 58, 47, 47>>) THEN i + 8
    ELSE IF StandsAt(text, i, <<104, 116, 116, 112, 58, 47, 47>>) THEN i + 7
    ELSE 0

(* the last position of the longest run of [^\s<>"] from position p on *)
RECURSIVE RunEnd(_, _)
RunEnd(text, p) ==
    IF p <= Len(text) /\ UrlChar(text[p]) THEN RunEnd(text, p + 1) ELSE p - 1

(* (verify|confirm|activate) after [^\s<>"]+ : a keyword that stands in    *)
(* the run p..e with at least one character of the run before it           *)
KeywordInRun(text, p, e) ==
    \E w \in Keywords, k \in (p + 1) .. e :
        StandsAt(text, k, w) /\ k + Len(w) - 1 <= e

(* the match of the pattern that starts at position i: its last position   *)
(* (both character classes are greedy, so the match takes the whole run),  *)
(* or 0                                                                    *)
MatchAt(text, i) ==
    LET p == SchemeEnd(text, i)
        e == IF p = 0 THEN 0 ELSE RunEnd(text, p)
    IN  IF p # 0 /\ KeywordInRun(text, p, e) THEN e ELSE 0

(* text.match(urlRegex) with the g flag: the matches from left to right,   *)
(* each search resuming after the match before                             *)
RECURSIVE MatchFrom(_, _)
MatchFrom(text, i) ==
    IF i > Len(text) THEN <<>>
    ELSE IF MatchAt(text, i) # 0
         THEN <<SubSeq(text, i, MatchAt(text, i))>>
                  \o MatchFrom(text, MatchAt(text, i) + 1)
         ELSE MatchFrom(text, i + 1)

Match(text) == MatchFrom(text, 1)

(* textContent || htmlContent || '' *)
TextToSearch(content) ==
    IF content.textContent # <<>> THEN content.textContent
    ELSE content.htmlContent

(* an extractVerifyUrl that searches htmlContent || textContent || '' *)
extractVerifyUrlHtmlFirst(email) ==
    IF ~email.defined THEN [threw |-> FALSE, url |-> None]
    ELSE LET content == extractEmailContent(email.payload)
             matches == Match(IF content.htmlContent # <<>>
                              THEN content.htmlContent
                              ELSE content.textContent)
         IN  IF content.threw THEN [threw |-> TRUE, url |-> None]
             ELSE IF matches # <<>>
                  THEN [threw |-> FALSE, url |-> Some(matches[1])]
                  ELSE [threw |-> FALSE, url |-> None]

(* extractVerifyUrl, lines 128-135 *)
extractVerifyUrl(email) ==
    IF ~email.defined THEN [threw |-> FALSE, url |-> None]
    ELSE LET content == extractEmailContent(email.payload)
             matches == Match(TextToSearch(content))
         IN  IF content.threw THEN [threw |-> TRUE, url |-> None]
             ELSE IF matches # <<>>
                  THEN [threw |-> FALSE, url |-> Some(matches[1])]
                  ELSE [threw |-> FALSE, url |-> None]

(* the base64url character of a 6-bit value *)
Base64UrlChar(v) ==
    IF v < 26 THEN v + 65
    ELSE IF v < 52 THEN v + 71
    ELSE IF v < 62 THEN v - 4
    ELSE IF v = 62 THEN 45
    ELSE 95

(* a body as the server sends it: the base64url characters of the bytes *)
Base64Url(bytes) ==
    [k \in 1 .. ((Len(bytes) * 8 + 5) \div 6) |->
        LET i == ((6 * (k - 1)) \div 8) + 1
            o == (6 * (k - 1)) % 8
            a == bytes[i]
            b == IF i < Len(bytes) THEN bytes[i + 1] ELSE 0
        IN  Base64UrlChar(IF o = 0 THEN a \div 4
                          ELSE IF o = 6 THEN (a % 4) * 16 + (b \div 16)
                          ELSE IF o = 4 THEN (a % 16) * 4 + (b \div 64)
                          ELSE a % 64)]

(* the pieces of the plain-text bodies *)
\* "http://a/verify" and "HTTPS://bb/Confirm?x"
ShortLink ==
    <<104, 116, 116, 112, 58, 47, 47, 97, 47, 118, 101, 114, 105, 102, 121>>
LongLink ==
    <<72, 84, 84, 80, 83, 58, 47, 47, 98, 98, 47, 67, 111, 110, 102, 105, 114, 109, 63, 120>>
Tokens ==
    {<<104, 116, 116, 112, 58, 47, 47>>,      \* http://
     <<118, 101, 114, 105, 102, 121>>,          \* verify
     <<97, 99, 116, 105, 118, 97, 116, 101>>,   \* activate
     <<97, 47>>,                                \* a/
     <<32>>,                                    \* a space
     <<60>>,                                    \* <
     ShortLink,
     LongLink}

RECURSIVE Flatten(_)
Flatten(ss) == IF ss = <<>> THEN <<>> ELSE Head(ss) \o Flatten(Tail(ss))

Texts == {Flatten(ts) : ts \in StringsUpTo(Tokens, MaxTokens)}

(* the html bodies: none, one with a link, one without *)
\* "http://h/activate", inside <a href="..."> in the body
HtmlLink ==
    <<104, 116, 116, 112, 58, 47, 47, 104, 47, 97, 99, 116, 105, 118, 97, 116, 101>>
Htmls ==
    {<<>>,
     <<60, 97, 32, 104, 114, 101, 102, 61, 34>> \o HtmlLink \o <<34, 62>>,
     <<60, 112, 62, 104, 105, 60, 47, 112, 62>>}

(* a message with a text/plain and a text/html part *)
Email(text, html) ==
    [defined |-> TRUE,
     payload |-> Payload(<<Part("multipart/alternative", None, <<2, 3>>),
                           Part("text/plain", Some(Base64Url(text)), <<>>),
                           Part("text/html", Some(Base64Url(html)), <<>>)>>)]

NoEmail == [defined |-> FALSE, payload |-> NoPayload]

VerifyUrlInit ==
    /\ Constructed
    /\ input \in {NoEmail} \cup {Email(text, html) : text \in Texts, html \in Htmls}
    /\ output = NotReturned

ExtractVerifyUrl ==
    /\ ~output.done
    /\ output' = LET r == extractVerifyUrl(input)
                 IN  IF r.threw THEN Threw ELSE Returned(r.url)
    /\ UNCHANGED <<input, component>>

VerifyUrlNext == ExtractVerifyUrl

VerifyUrlSpec == VerifyUrlInit /\ [][VerifyUrlNext]_vars

(* -------------------------- getEmailHeaders ---------------------------- *)
(* name.toLowerCase(), for ASCII names *)
toLowerCase(name) == [i \in 1 .. Len(name) |-> ToLowerCase(name[i])]

(* const headers = {} *)
EmptyObject == [k \in {} |-> ""]

(* obj[key] = value *)
Assign(obj, key, value) ==
    [k \in (DOMAIN obj) \cup {key} |-> IF k = key THEN value ELSE obj[k]]

(* a forEach that keeps the value a name already has *)
RECURSIVE forEachHeaderKeepsFirst(_, _, _)
forEachHeaderKeepsFirst(list, i, headers) ==
    IF i > Len(list) THEN headers
    ELSE forEachHeaderKeepsFirst(list, i + 1,
             IF toLowerCase(list[i].name) \in DOMAIN headers THEN headers
             ELSE Assign(headers, toLowerCase(list[i].name), list[i].value))

(* payload.headers.forEach(({ name, value }) => ...), lines 111-113 *)
RECURSIVE forEachHeader(_, _, _)
forEachHeader(list, i, headers) ==
    IF i > Len(list) THEN headers
    ELSE forEachHeader(list, i + 1,
             Assign(headers, toLowerCase(list[i].name), list[i].value))

(* a getEmailHeaders in which the first occurrence of a name wins *)
getEmailHeadersKeepsFirst(payload) ==
    IF ~payload.defined \/ ~payload.headers.defined THEN EmptyObject
    ELSE forEachHeaderKeepsFirst(payload.headers.list, 1, EmptyObject)

(* getEmailHeaders, lines 108-115 *)
getEmailHeaders(payload) ==
    IF ~payload.defined \/ ~payload.headers.defined THEN EmptyObject
    ELSE forEachHeader(payload.headers.list, 1, EmptyObject)

\* the header names "S", "s" and "To"
HeaderNames == {<<83>>, <<115>>, <<84, 111>>}
HeaderValues == {"Hi", "Bye"}

NoHeaders == [defined |-> FALSE, list |-> <<>>]
Headers(list) == [defined |-> TRUE, list |-> list]

HeaderLists ==
    {NoHeaders} \cup
    {Headers(list) :
        list \in StringsUpTo([name : HeaderNames, value : HeaderValues], MaxHeaders)}

(* a payload with headers of its own and a sub-part with a header "s" *)
PayloadWithHeaders(headers) ==
    [defined |-> TRUE,
     headers |-> headers,
     parts |-> <<[headers |-> Headers(<<[name |-> <<115>>, value |-> "Sub"]>>)]>>]

HeadersInit ==
    /\ Constructed
    /\ input \in {[defined |-> FALSE, headers |-> NoHeaders, parts |-> <<>>]}
                     \cup {PayloadWithHeaders(h) : h \in HeaderLists}
    /\ output = NotReturned

GetEmailHeaders ==
    /\ ~output.done
    /\ output' = Returned(getEmailHeaders(input))
    /\ UNCHANGED <<input, component>>

HeadersNext == GetEmailHeaders

HeadersSpec == HeadersInit /\ [][HeadersNext]_vars

(* ------------------------------ claims --------------------------------- *)
LiveSockets == {c \in SocketIds : Live(ws.sockets[c])}

Subscribes == \E r \in pending, d \in Messages : FetchLatestData(r, d)

Changed(k) ==
    /\ k \in DOMAIN verificationStatus
    /\ \/ k \notin DOMAIN verificationStatus'
       \/ verificationStatus'[k] # verificationStatus[k]

PushNaming(k) ==
    \E c \in SocketIds, e \in InboundEvents :
        /\ SocketMessage(c, e)
        /\ e.shape = "object"
        /\ e.type = "verification_update"
        /\ PropertyKey(e.messageId) = k

FetchResponseFor(k) ==
    \E r \in pending, d \in Messages :
        /\ FetchLatestData(r, d) \/ FetchDetailsData(r, d)
        /\ d.id = k

(* C1: at most one socket is connecting or open, and it is the one the ref  *)
(* holds, the one made by the latest connectWebSocket call; when a         *)
(* subscribe call returns, every earlier socket has been closed and the    *)
(* only live socket is a connecting one for the address of that call.      *)
OneLiveConnection ==
    /\ [](/\ Cardinality(LiveSockets) <= 1
          /\ LiveSockets \subseteq {ws.current}
          /\ \A n \in SocketIds : n <= ws.current)
    /\ [][\A r \in pending, d \in Messages :
              FetchLatestData(r, d) =>
                  /\ LiveSockets' = {ws'.current}
                  /\ ws'.current \notin SocketIds
                  /\ ws'.sockets[ws'.current].readyState = "Connecting"
                  /\ ws'.sockets[ws'.current].email = r.email]_vars

(* subscribe(a) then subscribe(b): the first socket, once open for a, has  *)
(* been closed, the second is open for b                                   *)
SecondSubscriptionLive ==
    /\ SocketIds = {1, 2}
    /\ ws.sockets[1].email = <<"a">>
    /\ ws.sockets[1].sent # <<>>
    /\ ws.sockets[1].readyState = "Closing"
    /\ ws.sockets[2].email = <<"b">>
    /\ ws.sockets[2].readyState = "Open"
    /\ ws.current = 2

(* C2: a malformed inbound event on an open socket leaves the mapping      *)
(* unchanged, leaves the socket open, and its handler does not throw.      *)
MalformedEventsDropped ==
    [][\A c \in SocketIds, e \in MalformedEvents :
          (mounted /\ SocketMessage(c, e)) =>
              /\ verificationStatus' = verificationStatus
              /\ ws'.sockets[c].readyState = "Open"
              /\ ~onmessage(verificationStatus, e).threw]_vars

(* C3, as claimed: once a fetch response has seeded the entry of m, only a *)
(* push event naming m changes it.                                         *)
SeededChangesOnlyByPush ==
    [][\A m \in MessageIds :
          (mounted' /\ m \in seeded /\ Changed(m))
              => PushNaming(m)]_vars

(* C3, amended: once a fetch response has seeded the entry of m, it is     *)
(* changed only by a push event naming m or by a fetch response (latest    *)
(* message or message detail) whose message id is m.                       *)
SeededChangesOnlyByPushOrFetch ==
    [][\A m \in MessageIds :
          (mounted' /\ m \in seeded /\ Changed(m))
              => (PushNaming(m) \/ FetchResponseFor(m))]_vars

(* two latest-message responses have arrived, both for m1: the second    *)
(* wrote the entry the first had seeded                                    *)
SeedOverwrittenByFetch ==
    /\ mounted
    /\ ws.current = 2
    /\ seeded = {"m1"}
    /\ "m1" \in DOMAIN verificationStatus
    /\ emailData # Null
    /\ verificationStatus["m1"] = emailData.verificationStatus

(* C4: after the component has unmounted no socket is connecting or open.  *)
NoLiveSocketAfterTeardown == ~mounted => LiveSockets = {}

(* C5: applied to any mapping the component reaches, a well-formed push    *)
(* event leaves its status in the entry of the id it names, whatever that  *)
(* entry held, and leaves the entries of the other ids as they were; and   *)
(* that is what the arrival of the event on an open socket does.           *)
LastPushWins ==
    /\ [](\A e \in WellFormedEvents :
              LET after == onmessage(verificationStatus, e)
              IN  /\ ~after.threw
                  /\ DOMAIN after.status =
                         (DOMAIN verificationStatus) \cup {e.messageId}
                  /\ after.status[e.messageId] = e.status
                  /\ \A k \in (DOMAIN verificationStatus) \ {e.messageId} :
                         after.status[k] = verificationStatus[k])
    /\ [][\A c \in SocketIds, e \in WellFormedEvents :
              (mounted /\ SocketMessage(c, e)) =>
                  /\ DOMAIN verificationStatus' =
                         (DOMAIN verificationStatus) \cup {e.messageId}
                  /\ verificationStatus'[e.messageId] = e.status
                  /\ \A k \in (DOMAIN verificationStatus) \ {e.messageId} :
                         verificationStatus'[k] = verificationStatus[k]]_vars

(* m1 was seeded as confirmed by the fetch and a push then made it failed  *)
PushOverwroteSeed ==
    /\ mounted
    /\ emailData = [id |-> "m1", verificationStatus |-> "confirmed"]
    /\ "m1" \in seeded
    /\ ws.current # 0
    /\ ws.sockets[ws.current].readyState = "Open"
    /\ verificationStatus["m1"] = "failed"

(* C6: a push event applied to any mapping the component reaches keeps     *)
(* every key and records its own id, known or not; while the component is  *)
(* mounted no step removes a key of the mapping, a fetch response changes  *)
(* the entry of no message id but its own, and the arrival of a push event *)
(* records its id and status.                                              *)
CumulativeCache ==
    /\ [](\A e \in WellFormedEvents :
              LET after == onmessage(verificationStatus, e).status
              IN  /\ DOMAIN verificationStatus \subseteq DOMAIN after
                  /\ e.messageId \in DOMAIN after)
    /\ [][mounted' =>
              /\ DOMAIN verificationStatus \subseteq DOMAIN verificationStatus'
              /\ \A r \in pending, d \in Messages :
                     (FetchLatestData(r, d) \/ FetchDetailsData(r, d)) =>
                         \A k \in (DOMAIN verificationStatus) \ {d.id} :
                             verificationStatus'[k] = verificationStatus[k]
              /\ \A c \in SocketIds, e \in WellFormedEvents :
                     SocketMessage(c, e) =>
                         /\ e.messageId \in DOMAIN verificationStatus'
                         /\ verificationStatus'[e.messageId] = e.status]_vars

(* m2 was only ever pushed, m1 is the selected and only listed message,    *)
(* and both have an entry                                                  *)
UnknownIdRecorded ==
    /\ mounted
    /\ latestEmails = <<"m1">>
    /\ emailData # Null
    /\ emailData.id = "m1"
    /\ Len(answered) >= 2
    /\ "m2" \notin seeded
    /\ "m2" \in DOMAIN verificationStatus
    /\ "m1" \in DOMAIN verificationStatus

(* C7: a closed socket stays closed; a socket is made, and a socket        *)
(* becomes live, only in a step that subscribes; while no socket is live   *)
(* the mapping is changed by no push.                                      *)
NoAutoRetry ==
    [][/\ \A c \in SocketIds :
              ws.sockets[c].readyState = "Closed" =>
                  (c \in SocketIds' => ws'.sockets[c].readyState = "Closed")
       /\ (ws'.current # ws.current \/ ~(SocketIds' \subseteq SocketIds)
             \/ ~(LiveSockets' \subseteq LiveSockets))
              => Subscribes
       /\ (LiveSockets = {} /\ mounted' /\ verificationStatus' # verificationStatus)
              => \E k \in MessageIds : FetchResponseFor(k)]_vars

(* the socket the ref holds was open and has failed; nothing is live *)
ClosedAfterFailure ==
    /\ mounted
    /\ ws.current # 0
    /\ ws.sockets[ws.current].readyState = "Closed"
    /\ ws.sockets[ws.current].sent # <<>>
    /\ LiveSockets = {}
    /\ pending = {}

(* C8: a connecting socket has sent nothing, an open socket has sent       *)
(* exactly the subscribe message for its own address, and no socket ever   *)
(* sent anything else.                                                     *)
OneSubscribePerConnection ==
    \A c \in SocketIds :
        LET s == ws.sockets[c]
            subscribe == [type |-> "subscribe", email |-> s.email]
        IN  /\ s.readyState = "Connecting" => s.sent = <<>>
            /\ s.readyState = "Open" => s.sent = <<subscribe>>
            /\ s.sent \in {<<>>, <<subscribe>>}

(* one socket closing before it opened, the next one open and subscribed *)
SubscribedOnOpen ==
    /\ SocketIds = {1, 2}
    /\ ws.sockets[1].readyState = "Closing"
    /\ ws.sockets[1].sent = <<>>
    /\ ws.sockets[2].readyState = "Open"
    /\ ws.sockets[2].sent = <<[type |-> "subscribe", email |-> <<"b">>]>>

(* C9: a request leaves the set in flight only when its own response       *)
(* arrives, issuing a request adds exactly one and removes none, and a     *)
(* response with data is applied whichever requests were issued after it.  *)
ResponsesAppliedAsTheyArrive ==
    [][/\ \A r \in pending :
              r \notin pending' =>
                  /\ Len(answered') = Len(answered) + 1
                  /\ answered'[Len(answered')] = r.seq
                  /\ pending' = pending \ {r}
       /\ nReq' # nReq =>
              /\ pending \subseteq pending'
              /\ Cardinality(pending') = Cardinality(pending) + 1
       /\ \A r \in pending, d \in Messages :
              (mounted /\ (FetchLatestData(r, d) \/ FetchDetailsData(r, d))) =>
                  /\ emailData' = d
                  /\ d.id \in DOMAIN verificationStatus'
                  /\ verificationStatus'[d.id] = d.verificationStatus]_vars

(* the response of request 2 arrived after that of request 3 and is the    *)
(* message held                                                            *)
StaleResponseHeld ==
    /\ mounted
    /\ answered = <<1, 3, 2>>
    /\ emailData = [id |-> "m1", verificationStatus |-> "confirmed"]
    /\ verificationStatus["m1"] = "confirmed"

(* C10: a rejected request sets an error that is neither empty nor the     *)
(* text of the empty latest-message response, and issues no request.       *)
RejectionReportedOnce ==
    [][\A r \in pending :
          (mounted /\ (FetchLatestRejected(r) \/ FetchDetailsRejected(r)
                          \/ VerifyRejected(r))) =>
              /\ error' \in {FailedLatest, FailedDetails, FailedVerify}
              /\ error' \notin {"", NoEmailsFound}
              /\ nReq' = nReq
              /\ pending' = pending \ {r}]_vars

(* the verification trigger was rejected: its failure is reported and      *)
(* nothing is in flight                                                    *)
AllRejected ==
    /\ mounted
    /\ nReq = 3
    /\ pending = {}
    /\ error = FailedVerify
    /\ Len(answered) = 3

(* C19: a latest-message fetch that is rejected or returns no data, and    *)
(* the click that issues a fetch, leave every socket and the mapping as    *)
(* they were; the ref takes a new socket only when a latest-message fetch  *)
(* returns data, and that socket is connecting for the address the request *)
(* was issued with.                                                        *)
SubscribedOnlyByFetchWithData ==
    [][/\ \A r \in pending :
              (FetchLatestEmpty(r) \/ FetchLatestRejected(r)) =>
                  /\ ws' = ws
                  /\ verificationStatus' = verificationStatus
       /\ FetchLatestEmails =>
              /\ ws' = ws
              /\ verificationStatus' = verificationStatus
       /\ ws'.current # ws.current =>
              \E r \in pending, d \in Messages :
                  /\ FetchLatestData(r, d)
                  /\ ws'.sockets[ws'.current].email = r.email
                  /\ ws'.sockets[ws'.current].readyState = "Connecting"]_vars

(* the second latest-message fetch was rejected: the message shown has     *)
(* been cleared, the socket of the first fetch is still open and the       *)
(* entry of its message is kept                                            *)
SubscriptionSurvivesFailedFetch ==
    /\ mounted
    /\ answered = <<1, 2>>
    /\ error = FailedLatest
    /\ emailData = Null
    /\ latestEmails = <<>>
    /\ ws.current = 1
    /\ ws.sockets[1].readyState = "Open"
    /\ "m1" \in DOMAIN verificationStatus

IsString(v) ==
    /\ DOMAIN v = 1 .. Len(v)
    /\ \A i \in 1 .. Len(v) : v[i] \in 0 .. 255

(* the transport decoding of s fails *)
TransportFails(s) == atob(UrlSafeToBase64(s)).threw

(* C14: a call of decodeContent returns a string and does not throw: the   *)
(* empty string for an absent or empty argument, and the argument itself   *)
(* when its transport decoding fails.                                      *)
DecodeNeverThrows ==
    output.done =>
        /\ ~output.threw
        /\ IsString(output.value)
        /\ (~input.defined \/ input.s = <<>>) => output.value = <<>>
        /\ (input.defined /\ TransportFails(input.s)) => output.value = input.s

(* "Q!" is no base64: it came back as it was *)
DecodeFellBack ==
    /\ output.done
    /\ input = Some(<<81, 33>>)
    /\ output.value = <<81, 33>>

(* letters, digits and spaces *)
Plain(s) ==
    \A i \in 1 .. Len(s) :
        s[i] \in (65 .. 90) \cup (97 .. 122) \cup (48 .. 57) \cup {32}

(* C15, as claimed: decodeContent returns plain text unchanged.            *)
PlainTextUnchanged ==
    (output.done /\ input.defined /\ Plain(input.s)) =>
        /\ ~output.threw
        /\ output.value = input.s

(* C15, amended: decodeContent returns a non-empty plain string unchanged  *)
(* exactly when its transport decoding fails, and decoding the result      *)
(* again then gives the same; a plain string that is well-formed in the    *)
(* transport encoding is decoded to something else.                        *)
PlainTextUnchangedIffNotTransport ==
    (output.done /\ input.defined /\ input.s # <<>> /\ Plain(input.s)) =>
        /\ ~output.threw
        /\ (output.value = input.s) <=> TransportFails(input.s)
        /\ TransportFails(input.s) =>
               decodeContent(Some(output.value)).s = output.value

(* " Q" is one base64 character once the space is stripped: it came back  *)
(* as it was                                                               *)
PlainReturnedRaw ==
    /\ output.done
    /\ input = Some(<<32, 81>>)
    /\ output.value = <<32, 81>>

(* the parts of a payload in depth-first, children-in-order traversal,     *)
(* every part that has child parts being descended into; a part is listed  *)
(* each time it is met, down to the depth of the number of parts           *)
RECURSIVE Preorder(_, _, _)
RECURSIVE PreorderAll(_, _, _, _)
Preorder(nodes, n, fuel) ==
    IF n = 0 \/ fuel = 0 THEN <<>>
    ELSE <<n>> \o PreorderAll(nodes, nodes[n].parts, 1, fuel - 1)

PreorderAll(nodes, parts, i, fuel) ==
    IF i > Len(parts) THEN <<>>
    ELSE Preorder(nodes, parts[i], fuel) \o PreorderAll(nodes, parts, i + 1, fuel)

(* the parts of type mimeType that carry body data, in traversal order *)
Leaves(payload, mimeType) ==
    LET IsLeaf(n) == /\ payload.nodes[n].mimeType = mimeType
                     /\ HasData(payload.nodes[n])
    IN  SelectSeq(Preorder(payload.nodes, 1, Len(payload.nodes)), IsLeaf)

FirstLeafDecoded(payload, mimeType) ==
    IF Leaves(payload, mimeType) = <<>> THEN <<>>
    ELSE decodeContent(payload.nodes[Head(Leaves(payload, mimeType))].data).s

(* every part is a leaf (body data, no child parts) or a container *)
LeafOrContainer(payload) ==
    \A n \in 1 .. Len(payload.nodes) :
        HasData(payload.nodes[n]) => payload.nodes[n].parts = <<>>

(* C11: when extractEmailContent returns for a payload whose parts are     *)
(* leaves or containers, textContent is the decoded body of the first      *)
(* text/plain leaf in depth-first, children-in-order traversal and         *)
(* htmlContent that of the first text/html leaf.                           *)
FirstLeafWins ==
    (output.done /\ ~output.threw /\ input.defined /\ LeafOrContainer(input)) =>
        /\ output.value.textContent = FirstLeafDecoded(input, "text/plain")
        /\ output.value.htmlContent = FirstLeafDecoded(input, "text/html")

(* C12: when extractEmailContent returns, a content field is filled if     *)
(* and only if a part of its type with body data is met by descending      *)
(* into every part that has child parts, whatever its own type.            *)
ContainersAlwaysRecursed ==
    (output.done /\ ~output.threw /\ input.defined) =>
        /\ (output.value.textContent # <<>>) <=> (Leaves(input, "text/plain") # <<>>)
        /\ (output.value.htmlContent # <<>>) <=> (Leaves(input, "text/html") # <<>>)

(* C13: extractEmailContent returns a result for every payload, however    *)
(* deep and also when a part is reachable from its own parts.              *)
TraversalReturns == output.done => ~output.threw

(* the text extractVerifyUrl is to search: textContent when it is not      *)
(* empty, otherwise htmlContent, otherwise the empty string                *)
SearchText(email) ==
    LET content == extractEmailContent(email.payload)
    IN  IF content.textContent # <<>> THEN content.textContent
        ELSE IF content.htmlContent # <<>> THEN content.htmlContent
        ELSE <<>>

(* the least position of text that satisfies At, or 0 *)
Leftmost(text, At(_)) ==
    IF \E i \in 1 .. Len(text) : At(i)
    THEN CHOOSE i \in 1 .. Len(text) : At(i) /\ \A j \in 1 .. (i - 1) : ~At(j)
    ELSE 0

(* C16: extractVerifyUrl returns null for no message and when the pattern  *)
(* matches nowhere in the search text, and otherwise the match that starts *)
(* at the least position of the search text where the pattern matches,     *)
(* whatever matches follow it.                                             *)
LeftmostLinkOfSearchText ==
    (output.done /\ ~output.threw) =>
        IF ~input.defined THEN output.value = None
        ELSE LET text == SearchText(input)
                 At(i) == MatchAt(text, i) # 0
                 first == Leftmost(text, At)
             IN  IF first = 0 THEN output.value = None
                 ELSE output.value = Some(SubSeq(text, first, MatchAt(text, first)))

(* the text holds the long link, a space and the short link, the html      *)
(* another link: the long link, the first of the text, was returned        *)
EarlierLinkReturned ==
    /\ output.done
    /\ input = Email(LongLink \o <<32>> \o ShortLink,
                     <<60, 97, 32, 104, 114, 101, 102, 61, 34>> \o HtmlLink \o <<34, 62>>)
    /\ output.value = Some(LongLink)

(* a keyword stands anywhere in the run p..e *)
KeywordAnywhereInRun(text, p, e) ==
    \E w \in Keywords, k \in p .. e :
        StandsAt(text, k, w) /\ k + Len(w) - 1 <= e

(* C17: extractVerifyUrl finds a link exactly where an http or https       *)
(* scheme is followed by a run of non-whitespace, non-angle-bracket,       *)
(* non-quote characters that has verify, confirm or activate anywhere in   *)
(* it, also right after the scheme, and the link ends where the run ends.  *)
LinkPatternAsClaimed ==
    (output.done /\ ~output.threw /\ input.defined) =>
        LET text == SearchText(input)
            At(i) == /\ SchemeEnd(text, i) # 0
                     /\ KeywordAnywhereInRun(text, SchemeEnd(text, i),
                                             RunEnd(text, SchemeEnd(text, i)))
            first == Leftmost(text, At)
        IN  IF first = 0 THEN output.value = None
            ELSE output.value =
                     Some(SubSeq(text, first, RunEnd(text, SchemeEnd(text, first))))

(* C18: getEmailHeaders returns the empty mapping for an absent payload or *)
(* header list; otherwise its keys are the lower-cased names of the        *)
(* payload's own header list, one per distinct lower-cased name, each      *)
(* with the value of the last entry of the list that has that name.        *)
HeadersLastWins ==
    (output.done /\ ~output.threw) =>
        IF ~input.defined \/ ~input.headers.defined
        THEN DOMAIN output.value = {}
        ELSE LET list == input.headers.list
                 Named(k) == {i \in 1 .. Len(list) : toLowerCase(list[i].name) = k}
             IN  /\ DOMAIN output.value =
                        {toLowerCase(list[i].name) : i \in 1 .. Len(list)}
                 /\ \A k \in DOMAIN output.value :
                        \E i \in Named(k) :
                            /\ \A j \in Named(k) : j <= i
                            /\ output.value[k] = list[i].value

(* [{S: Hi}, {s: Bye}] gave {s: Bye} *)
SubjectBye ==
    /\ output.done
    /\ input.defined
    /\ input.headers = Headers(<<[name |-> <<83>>, value |-> "Hi"],
                                 [name |-> <<115>>, value |-> "Bye"]>>)
    /\ DOMAIN output.value = {<<115>>}
    /\ output.value[<<115>>] = "Bye"
====
